---------------------------- MODULE Spec2Model ----------------------------
(***************************************************************************)
(* Model of the file organiser "clean": cleanFilesByType                   *)
(* (src/src/clean/cleanByType.cpp) and cleanFilesByName                    *)
(* (src/src/clean/cleanByName.cpp) acting on one target directory.         *)
(*                                                                         *)
(* Strings are sequences of one-character strings, so that lowercasing,    *)
(* extension splitting, tokenizing and substring search are computed the   *)
(* way the code computes them.                                             *)
(***************************************************************************)
EXTENDS Integers, Sequences, FiniteSets, TLC

(***************************************************************************)
(* Characters: printable ASCII, Chr[i] has code i + 31 (code 96 is         *)
(* written "backtick").                                                    *)
(***************************************************************************)
Chr == <<" ", "!", "\"", "#", "$", "%", "&", "'", "(", ")", "*", "+", ",", "-", ".", "/", "0",
          "1", "2", "3", "4", "5", "6", "7", "8", "9", ":", ";", "<", "=", ">", "?", "@", "A",
          "B", "C", "D", "E", "F", "G", "H", "I", "J", "K", "L", "M", "N", "O", "P", "Q", "R",
          "S", "T", "U", "V", "W", "X", "Y", "Z", "[", "\\", "]", "^", "_", "backtick", "a", "b",
          "c", "d", "e", "f", "g", "h", "i", "j", "k", "l", "m", "n", "o", "p", "q", "r", "s",
          "t", "u", "v", "w", "x", "y", "z", "{", "|", "}", "~">>

fallbackFileTypes ==
  << [type |-> <<"I","m","a","g","e","s">>,
      exts |-> << <<".","j","p","g">>, <<".","j","p","e","g">>, <<".","p","n","g">>,
                  <<".","g","i","f">>, <<".","b","m","p">>, <<".","t","i","f","f">>,
                  <<".","w","e","b","p">>, <<".","h","e","i","c">>, <<".","h","e","i","f">>,
                  <<".","s","v","g">>, <<".","i","c","o">>, <<".","j","f","i","f">>,
                  <<".","r","a","w">>, <<".","a","r","w">>, <<".","c","r","2">>,
                  <<".","n","e","f">>, <<".","o","r","f">>, <<".","d","n","g">> >>],
     [type |-> <<"V","i","d","e","o","s">>,
      exts |-> << <<".","m","p","4">>, <<".","m","o","v">>, <<".","a","v","i">>,
                  <<".","m","k","v">>, <<".","w","m","v">>, <<".","f","l","v">>,
                  <<".","w","e","b","m">>, <<".","m","p","e","g">>, <<".","m","p","g">>,
                  <<".","3","g","p">>, <<".","m","4","v">>, <<".","t","s">>, <<".","m","t","s">>,
                  <<".","v","o","b">> >>],
     [type |-> <<"A","u","d","i","o">>,
      exts |-> << <<".","m","p","3">>, <<".","w","a","v">>, <<".","f","l","a","c">>,
                  <<".","a","a","c">>, <<".","o","g","g">>, <<".","w","m","a">>,
                  <<".","m","4","a">>, <<".","o","p","u","s">>, <<".","a","i","f","f">>,
                  <<".","m","i","d">>, <<".","m","i","d","i">> >>],
     [type |-> <<"D","o","c","u","m","e","n","t","s">>,
      exts |-> << <<".","p","d","f">>, <<".","d","o","c">>, <<".","d","o","c","x">>,
                  <<".","t","x","t">>, <<".","r","t","f">>, <<".","o","d","t">>,
                  <<".","c","s","v">>, <<".","x","l","s","x">>, <<".","x","l","s">>,
                  <<".","p","p","t">>, <<".","p","p","t","x">>, <<".","e","p","u","b">>,
                  <<".","m","d">>, <<".","t","e","x">>, <<".","p","a","g","e","s">>,
                  <<".","n","u","m","b","e","r","s">>, <<".","k","e","y">> >>],
     [type |-> <<"A","r","c","h","i","v","e","s">>,
      exts |-> << <<".","z","i","p">>, <<".","r","a","r">>, <<".","7","z">>, <<".","t","a","r">>,
                  <<".","g","z">>, <<".","b","z","2">>, <<".","x","z">>, <<".","i","s","o">>,
                  <<".","d","m","g">>, <<".","t","g","z">>, <<".","c","a","b">> >>],
     [type |-> <<"C","o","d","e">>,
      exts |-> << <<".","p","y">>, <<".","j","s">>, <<".","h","t","m","l">>, <<".","c","s","s">>,
                  <<".","c">>, <<".","c","p","p">>, <<".","h">>, <<".","h","p","p">>,
                  <<".","j","a","v","a">>, <<".","s","h">>, <<".","t","s">>, <<".","p","h","p">>,
                  <<".","r","b">>, <<".","g","o">>, <<".","s","w","i","f","t">>, <<".","k","t">>,
                  <<".","r","s">>, <<".","l","u","a">>, <<".","s","q","l">>,
                  <<".","j","s","o","n">>, <<".","x","m","l">>, <<".","y","m","l">>,
                  <<".","y","a","m","l">>, <<".","c","s">>, <<".","v","b">>, <<".","p","l">>,
                  <<".","a","s","m">>, <<".","b","a","t">>, <<".","c","m","d">> >>],
     [type |-> <<"F","o","n","t","s">>,
      exts |-> << <<".","t","t","f">>, <<".","o","t","f">>, <<".","w","o","f","f">>,
                  <<".","w","o","f","f","2">>, <<".","e","o","t">>, <<".","f","o","n">> >>],
     [type |-> <<"3","D","_","M","o","d","e","l","s">>,
      exts |-> << <<".","o","b","j">>, <<".","f","b","x">>, <<".","s","t","l">>,
                  <<".","b","l","e","n","d">>, <<".","3","d","s">>, <<".","d","a","e">>,
                  <<".","p","l","y">>, <<".","g","l","t","f">>, <<".","g","l","b">> >>],
     [type |-> <<"S","u","b","t","i","t","l","e","s">>,
      exts |-> << <<".","s","r","t">>, <<".","v","t","t">>, <<".","a","s","s">>,
                  <<".","s","s","a">>, <<".","s","u","b">> >>],
     [type |-> <<"C","o","n","f","i","g","s">>,
      exts |-> << <<".","i","n","i">>, <<".","c","f","g">>, <<".","c","o","n","f">>,
                  <<".","j","s","o","n","c">>, <<".","t","o","m","l">>, <<".","e","n","v">>,
                  <<".","p","r","o","p","e","r","t","i","e","s">> >>],
     [type |-> <<"D","i","s","k","I","m","a","g","e","s">>,
      exts |-> << <<".","i","s","o">>, <<".","i","m","g">>, <<".","v","h","d">>,
                  <<".","v","h","d","x">>, <<".","v","d","i">>, <<".","v","m","d","k">> >>],
     [type |-> <<"P","a","c","k","a","g","e","s">>,
      exts |-> << <<".","d","e","b">>, <<".","r","p","m">>, <<".","a","p","k">>,
                  <<".","j","a","r">>, <<".","w","h","l">>, <<".","g","e","m">>,
                  <<".","m","s","i">> >>],
     [type |-> <<"O","t","h","e","r">>,
      exts |-> <<  >>] >>

defaultIgnoreTokens ==
  << <<"o","f","f","i","c","i","a","l">>, <<"l","y","r","i","c","s">>, <<"v","i","d","e","o">>,
     <<"a","u","d","i","o">>, <<"h","d">>, <<"r","e","m","i","x">>, <<"m","v">>,
     <<"l","i","v","e">>, <<"y","o","u","t","u","b","e">>, <<"f","t">>, <<"f","e","a","t">>,
     <<"2","0","2","5">>, <<"7","2","0","p">>, <<"1","0","8","0">>, <<"1","0","8","0","p">>,
     <<"b","e","s","t">>, <<"s","o","n","g">>, <<"s","o","n","g","s">>, <<"3","6","0","p">>,
     <<"f","e","a","t","u","r","i","n","g">>, <<"w","w","w">>, <<"c","o","m">>, <<"n","e","t">>,
     <<"o","r","g">>, <<"s","a","m","p","l","e">>, <<"2","5","6","k">>,
     <<"s","e","a","s","o","n">>, <<"e","p","i","s","o","d","e">>, <<"l","y","r","i","c">>,
     <<"m","u","s","i","c">> >>

Range(s) == { s[i] : i \in DOMAIN s }

\* ASCII code of a character.
OrdOf == [ c \in Range(Chr) |-> 31 + (CHOOSE i \in DOMAIN Chr : Chr[i] = c) ]

\* std::tolower in the "C" locale: A..Z -> a..z, everything else unchanged.
tolower(c) == IF OrdOf[c] >= 65 /\ OrdOf[c] <= 90 THEN Chr[OrdOf[c] + 32 - 31] ELSE c

\* std::isalnum in the "C" locale.
isalnum(c) ==
  \/ OrdOf[c] >= 48 /\ OrdOf[c] <= 57
  \/ OrdOf[c] >= 65 /\ OrdOf[c] <= 90
  \/ OrdOf[c] >= 97 /\ OrdOf[c] <= 122

\* The toLower lambda: a lowercased copy of s.
toLower(s) == [ i \in 1..Len(s) |-> tolower(s[i]) ]

\* std::string::find(needle) != npos.
Contains(hay, needle) ==
  \E i \in 0..(Len(hay) - Len(needle)) : SubSeq(hay, i + 1, i + Len(needle)) = needle

\* std::string operator< : lexicographic comparison of the character codes.
RECURSIVE StrLess(_, _)
StrLess(a, b) ==
  IF b = <<>> THEN FALSE
  ELSE IF a = <<>> THEN TRUE
  ELSE IF a[1] # b[1] THEN OrdOf[a[1]] < OrdOf[b[1]]
  ELSE StrLess(Tail(a), Tail(b))

\* The keys of a std::map<std::string, ...> in iteration (ascending) order.
RECURSIVE SortedKeys(_)
SortedKeys(S) ==
  IF S = {} THEN <<>>
  ELSE LET m == CHOOSE x \in S : \A y \in S \ {x} : StrLess(x, y)
       IN  <<m>> \o SortedKeys(S \ {m})

\* Index of the rightmost '.', 0 when there is none.
LastDot(fname) ==
  IF \E i \in DOMAIN fname : fname[i] = "."
  THEN CHOOSE i \in DOMAIN fname : fname[i] = "." /\ \A j \in DOMAIN fname : j > i => fname[j] # "."
  ELSE 0

\* fs::path::extension(): from the rightmost '.', unless the filename is "." or
\* ".." or the only '.' is its first character.
extension(fname) ==
  IF fname = <<".">> \/ fname = <<".", ".">> \/ LastDot(fname) <= 1 THEN <<>>
  ELSE SubSeq(fname, LastDot(fname), Len(fname))

\* fs::path::stem(): the filename without its extension.
stem(fname) == SubSeq(fname, 1, Len(fname) - Len(extension(fname)))

(***************************************************************************)
(* Configuration tables                                                    *)
(***************************************************************************)

\* getFileTypes(): the category -> extensions std::map, in key order.
getFileTypes ==
  LET keys == SortedKeys({ r.type : r \in Range(fallbackFileTypes) })
  IN  [ i \in 1..Len(keys) |-> CHOOSE r \in Range(fallbackFileTypes) : r.type = keys[i] ]

\* The positions <<i, j>> of getFileTypes: category i lists an extension at j.
Listed ==
  UNION { { <<i, j>> : j \in DOMAIN getFileTypes[i].exts } : i \in DOMAIN getFileTypes }

LastListing_first(e) ==
  CHOOSE i \in DOMAIN getFileTypes :
    /\ \E p \in Listed : p[1] = i /\ toLower(getFileTypes[i].exts[p[2]]) = e
    /\ \A p \in Listed : toLower(getFileTypes[p[1]].exts[p[2]]) = e => p[1] >= i

\* The position of the category whose assignment extToType[lowerExt] = type is
\* the last to run for the key e, the loop going over the map in key order.
LastListing(e) ==
  CHOOSE i \in DOMAIN getFileTypes :
    /\ \E p \in Listed : p[1] = i /\ toLower(getFileTypes[i].exts[p[2]]) = e
    /\ \A p \in Listed : toLower(getFileTypes[p[1]].exts[p[2]]) = e => p[1] <= i

\* extToType: lowercased extension -> type.
extToType ==
  [ e \in { toLower(getFileTypes[p[1]].exts[p[2]]) : p \in Listed } |->
      getFileTypes[LastListing(e)].type ]

Other == <<"O","t","h","e","r">>

typeOf_caseSensitive(ext) ==
  IF ext \in DOMAIN extToType THEN extToType[ext] ELSE Other

\* The category folder of a file with extension ext: type = "Other" unless
\* extToType.count(lowerExt).
typeOf(ext) ==
  LET lowerExt == toLower(ext)
  IN  IF lowerExt \in DOMAIN extToType THEN extToType[lowerExt] ELSE Other

\* The built-in list of dangerous extensions, each with its leading dot.
DEFAULT_DANGEROUS_EXTS ==
  << <<".","e","x","e">>, <<".","d","l","l">>, <<".","c","o","m">>, <<".","m","s","i">>,
     <<".","b","i","n">>, <<".","s","y","s">>, <<".","b","a","t">>, <<".","c","m","d">>,
     <<".","v","b","s">>, <<".","j","s">>, <<".","j","s","e">>, <<".","w","s","f">>,
     <<".","w","s","h">>, <<".","p","s","1">>, <<".","p","s","m","1">>, <<".","s","h">>,
     <<".","b","a","s","h">>, <<".","z","s","h">>, <<".","l","n","k">>,
     <<".","i","n","f">>, <<".","m","s","u">>, <<".","m","s","p">>,
     <<".","d","o","c","m">>, <<".","x","l","s","m">>, <<".","p","p","t","m">>,
     <<".","s","c","r">>, <<".","p","i","f">>, <<".","j","a","r">>, <<".","r","e","g">> >>

\* getDangerousExts(): the built-in list, data/dangerousExts.json being absent.
getDangerousExts == DEFAULT_DANGEROUS_EXTS

isDangerous_none(ext) == FALSE

\* std::find(dangerous.begin(), dangerous.end(), lowerExt) != dangerous.end()
isDangerous(ext) == toLower(ext) \in Range(getDangerousExts)

\* getIgnoreTokens() as an unordered_set.
ignoreSet == Range(defaultIgnoreTokens)

(***************************************************************************)
(* Bounds of the model and the inputs it draws from                        *)
(***************************************************************************)
MaxFiles == 3     \* regular files directly in the target directory at the start
MaxPre == 1       \* files that already lie in sub-folders at the start
MaxFaults == 1    \* folder creations / renames the platform refuses
MaxRuns == 2      \* operations invoked one after the other (SpecTwice)
MaxSeqFiles == 2  \* files in the target directory at the start (SpecTwice)

trip_a_jpg == <<"t","r","i","p","_","a",".","j","p","g">>
trip_b_JPG == <<"t","r","i","p","_","b",".","J","P","G">>
my_trip_png == <<"m","y","_","t","r","i","p",".","p","n","g">>
trip_txt == <<"t","r","i","p",".","t","x","t">>
east_trip_jpg == <<"e","a","s","t","_","t","r","i","p",".","j","p","g">>
east_txt == <<"e","a","s","t",".","t","x","t">>
eastern_png == <<"e","a","s","t","e","r","n",".","p","n","g">>
run_bat == <<"r","u","n",".","b","a","t">>
Images == <<"I","m","a","g","e","s">>
a_b_md == <<"a","\\","b",".","m","d">>
trip == <<"t","r","i","p">>
TRIP == <<"T","R","I","P">>
east == <<"e","a","s","t">>
a_b == <<"a","\\","b">>

\* Filenames a directory of the model is drawn from.
NameUniverse ==
  { trip_a_jpg, trip_b_JPG, my_trip_png, trip_txt, east_trip_jpg, east_txt, eastern_png,
    run_bat, Images, a_b_md }

\* Files that may already lie in a sub-folder: <<folder, filename>>.
PreUniverse ==
  { <<Images, trip_a_jpg>>, <<trip, trip_a_jpg>>, <<TRIP, trip_txt>>, <<east, east_trip_jpg>> }

\* Sub-folders that may already exist, empty.
DirUniverse == { trip }

\* What the user may type at the name prompt, besides a bare Enter.
Queries == { TRIP, east, a_b }

(***************************************************************************)
(* State                                                                   *)
(***************************************************************************)
VARIABLES
  files,         \* regular files: [dir, name, org]; dir = Root for the target directory
  dirs,          \* names of the sub-folders of the target directory
  pc,            \* "getDirectory", "idle", "type", "explicit", "auto", "autoMove",
                 \* "terminated"
  pending,       \* by type: directory entries the iterator has not yielded yet
  name,          \* by name: the line typed at the prompt, <<>> for a bare Enter
  matches,       \* explicit name: files selected, not yet handled
  destDir,       \* by name: the destination folder of the current group
  tokenCount,    \* auto-detect: token -> count
  common,        \* auto-detect: <<token, count>> pairs, ranked
  idx,           \* auto-detect: position in common (i + 1)
  found,         \* auto-detect: files matched by the re-scan, not yet handled
  moved, skipped, skippedFiles,
  log,           \* what this run did: events [kind, name, to]
  start,         \* the filesystem when this run began
  hist,          \* one summary per operation that has returned
  denied,        \* the creations and renames the platform refuses, as met so far
  budget,        \* operations the user invokes
  directoryPath, \* the path the menus pass to the operations
  stdin,         \* getDirectoryPath: the lines standard input still holds
  inputPath      \* getDirectoryPath: the line read

vars == << files, dirs, pc, pending, name, matches, destDir, tokenCount, common, idx, found,
           moved, skipped, skippedFiles, log, start, hist, denied, budget,
           directoryPath, stdin, inputPath >>

\* What an operation on the directory leaves alone.
sessionVars == << budget, directoryPath, stdin, inputPath >>

\* fs::exists(p) for the paths of the model: a directory, the current
\* directory, a regular file; "missing" names nothing.
exists(p) == p \in {"dir", "cwd", "file"}

\* fs::is_directory(p)
is_directory(p) == p \in {"dir", "cwd"}

\* status(p) fails with an error other than not-found (a path longer than the
\* platform allows): fs::exists(p) throws filesystem_error.
statusFails(p) == p = "overlong"

\* !(!fs::exists(directoryPath) || !fs::is_directory(directoryPath))
validDirectory == exists(directoryPath) /\ is_directory(directoryPath)

Root == <<>>

File(dir, fname, org) == [dir |-> dir, name |-> fname, org |-> org]

RegularFiles_recursive == files

\* fs::directory_iterator(directoryPath) filtered by is_regular_file(): the
\* regular files directly in the target directory.
RegularFiles == { f \in files : f.dir = Root }

\* The directory entries "." and "..": the directory itself and its parent.
dot == <<".">>
dotdot == <<".", ".">>

\* directoryPath / dir names a directory: a sub-folder, the directory itself
\* or its parent.
isFolder(ds, dir) == dir \in ds \/ dir \in {dot, dotdot}

\* Where the files of directoryPath / dir lie: those of "." are the files of
\* the directory itself; the files of the parent are kept under "..".
at(dir) == IF dir = dot THEN Root ELSE dir

\* fs::exists(directoryPath / name): a sub-folder, "." or "..", or a regular
\* file of that name.
existsInRoot(ds, fname) ==
  isFolder(ds, fname) \/ \E f \in files : f.dir = Root /\ f.name = fname

\* fs::exists(directoryPath / dir / name) with the sub-folders ds; a path
\* through something that is not a directory does not exist.
fileAt(ds, dir, fname) ==
  isFolder(ds, dir) /\ \E f \in files : f.dir = at(dir) /\ f.name = fname

\* fs::rename(src, directoryPath / dir / src.filename()) when it succeeds: the
\* file leaves its place and replaces whatever had that name in dir.
renamed(src, dir) ==
  (files \ ({src} \cup { g \in files : g.dir = at(dir) /\ g.name = src.name }))
    \cup { [src EXCEPT !.dir = at(dir)] }

\* rename can only succeed from an existing file into an existing directory.
renamePossible(ds, src, dir) == isFolder(ds, dir) /\ src \in files

Event(kind, fname, to) == [kind |-> kind, name |-> fname, to |-> to]

Failed(l) == \E e \in l : e.kind \in {"mkdirFailed", "renameFailed"}

\* The counters and the skip list at the top of both operations.
Begin(p) ==
  /\ pc = "idle"
  /\ Len(hist) < budget
  /\ moved' = 0 /\ skipped' = 0 /\ skippedFiles' = <<>>
  /\ log' = {}
  /\ start' = [files |-> files, dirs |-> dirs]
  /\ UNCHANGED sessionVars

\* The operation returns to the menu.
Return(p, l) ==
  /\ pc' = "idle"
  /\ hist' = Append(hist, [op |-> p, failed |-> Failed(l), moved |-> moved',
                         after |-> [files |-> files', dirs |-> dirs']])
  /\ UNCHANGED sessionVars

Idle ==
  /\ pc = "idle"
  /\ pending = {} /\ name = <<>> /\ matches = {} /\ destDir = <<>>
  /\ tokenCount = <<>> /\ common = <<>> /\ idx = 0 /\ found = {}
  /\ moved = 0 /\ skipped = 0 /\ skippedFiles = <<>>
  /\ log = {}
  /\ start = [files |-> files, dirs |-> dirs]
  /\ hist = <<>>
  /\ denied = {}
  /\ stdin = <<>> /\ inputPath = ""

Directory(maxFiles) ==
  \E S \in SUBSET NameUniverse, P \in SUBSET PreUniverse, E \in SUBSET DirUniverse :
    /\ Cardinality(S) <= maxFiles
    /\ Cardinality(P) <= MaxPre
    /\ files = { File(Root, n, Root) : n \in S } \cup { File(p[1], p[2], p[1]) : p \in P }
    /\ dirs = { p[1] : p \in P } \cup E
    /\ \A n \in S : n \notin dirs
    /\ directoryPath = "dir"

\* The path the menu holds names nothing (any more).
Missing == directoryPath = "missing" /\ files = {} /\ dirs = {}

\* One operation on a directory of at most MaxFiles files, or on a path that
\* names nothing.
Init == (Directory(MaxFiles) \/ Missing) /\ Idle /\ budget = 1

\* Up to MaxRuns operations, one after the other, on a smaller directory.
InitSeq == Directory(MaxSeqFiles) /\ Idle /\ budget = MaxRuns

\* ++skipped; skippedFiles.push_back(src.filename());
SkipFile(src, kind, to) ==
  /\ skipped' = skipped + 1
  /\ skippedFiles' = Append(skippedFiles, src.name)
  /\ log' = log \cup { Event(kind, src.name, to) }
  /\ UNCHANGED << files, moved >>

\* fs::rename succeeded; ++moved;
MoveFile(src, to) ==
  /\ files' = renamed(src, to)
  /\ moved' = moved + 1
  /\ log' = log \cup { Event("moved", src.name, to) }
  /\ UNCHANGED << skipped, skippedFiles >>

\* The platform refuses create_directory(to) (fname = <<>>) or the rename of
\* fname into to: for good, once it has.
Fault(fname, to) ==
  LET op == [name |-> fname, to |-> to]
  IN  \/ op \in denied /\ UNCHANGED denied
      \/ op \notin denied /\ Cardinality(denied) < MaxFaults /\ denied' = denied \cup {op}

\* The platform lets it happen.
Granted(fname, to) == [name |-> fname, to |-> to] \notin denied /\ UNCHANGED denied

(***************************************************************************)
(* cleanFilesByType                                                        *)
(***************************************************************************)
byNameVars == << name, matches, destDir, tokenCount, common, idx, found >>

cleanFilesByType ==
  /\ Begin("type")
  /\ UNCHANGED << files, dirs, denied, byNameVars >>
  /\ IF validDirectory
     THEN /\ pc' = "type"
          /\ pending' = RegularFiles
          /\ UNCHANGED hist
     ELSE /\ UNCHANGED pending
          /\ Return("type", {})

continueWith_break(rest) == {}

\* continue; the loop goes on with the entries not yet yielded.
continueWith(rest) == rest

typeDestExists_never(ds, dir, fname) == FALSE

\* if (fs::exists(dest))
typeDestExists(ds, dir, fname) == fileAt(ds, dir, fname)

\* One pass of the loop over the directory entries.
TypeFile(src) ==
  /\ pc = "type"
  /\ src \in pending
  /\ UNCHANGED << pc, start, hist, sessionVars, byNameVars >>
  /\ LET type == typeOf(extension(src.name))
         made == IF existsInRoot(dirs, type) THEN dirs ELSE dirs \cup {type}
     IN  IF isDangerous(extension(src.name))
         THEN /\ SkipFile(src, "dangerous", type)
              /\ pending' = continueWith(pending \ {src})
              /\ UNCHANGED << dirs, denied >>
         ELSE \/ /\ ~existsInRoot(dirs, type)
                 /\ Fault(<<>>, type)
                 /\ SkipFile(src, "mkdirFailed", type)
                 /\ pending' = continueWith(pending \ {src})
                 /\ UNCHANGED dirs
              \/ /\ existsInRoot(dirs, type) \/ [name |-> <<>>, to |-> type] \notin denied
                 /\ dirs' = made
                 /\ \/ /\ typeDestExists(made, type, src.name)
                       /\ SkipFile(src, "conflict", type)
                       /\ pending' = continueWith(pending \ {src})
                       /\ UNCHANGED denied
                    \/ /\ ~typeDestExists(made, type, src.name)
                       /\ \/ ~renamePossible(made, src, type) /\ UNCHANGED denied
                          \/ renamePossible(made, src, type) /\ Fault(src.name, type)
                       /\ SkipFile(src, "renameFailed", type)
                       /\ pending' = pending \ {src}
                    \/ /\ ~typeDestExists(made, type, src.name)
                       /\ renamePossible(made, src, type)
                       /\ Granted(src.name, type)
                       /\ MoveFile(src, type)
                       /\ pending' = pending \ {src}

\* The loop is over: the report is printed.
TypeReport ==
  /\ pc = "type"
  /\ pending = {}
  /\ UNCHANGED << files, dirs, pending, moved, skipped, skippedFiles, log, start, denied,
                  byNameVars >>
  /\ Return("type", log)

(***************************************************************************)
(* cleanFilesByName: explicit name                                         *)
(***************************************************************************)
MinTokenLength == 4   \* token.size() >= 4
MinGroupSize == 2     \* kv.second >= 2, found.size() < 2
TopTokens == 10       \* min<size_t>(10, common.size())

typeVars == << pending >>
autoVars == << tokenCount, common, idx, found >>

dirNameOf_raw(q) == q

\* dirName: the name typed, '/' and '\' replaced by '_'.
dirNameOf(q) ==
  [ i \in 1..Len(q) |-> IF q[i] = "/" \/ q[i] = "\\" THEN "_" ELSE q[i] ]

matchesOf_caseSensitive(q) == { f \in RegularFiles : Contains(f.name, q) }

\* The files whose lowercased filename contains the lowercased name.
matchesOf(q) == { f \in RegularFiles : Contains(toLower(f.name), toLower(q)) }

noMatches_never(m) == FALSE

\* if (matches.empty())
noMatches(m) == m = {}

\* Branch 1 up to the loop that moves: select, then make the folder. The
\* directory_iterator of a path that is no directory throws filesystem_error,
\* which nothing catches.
ExplicitSelect(q) ==
  /\ q # <<>>
  /\ name' = q
  /\ Begin("explicit")
  /\ UNCHANGED << files, typeVars, autoVars >>
  /\ \/ /\ ~validDirectory
        /\ pc' = "terminated"
        /\ UNCHANGED << dirs, matches, destDir, denied, hist >>
     \/ /\ validDirectory
        /\ noMatches(matchesOf(q))
        /\ UNCHANGED << dirs, matches, destDir, denied >>
        /\ Return("explicit", {})
     \/ /\ validDirectory
        /\ ~noMatches(matchesOf(q))
        /\ ~existsInRoot(dirs, dirNameOf(q))
        /\ Fault(<<>>, dirNameOf(q))
        /\ UNCHANGED << dirs, matches, destDir >>
        /\ Return("explicit", { Event("mkdirFailed", <<>>, dirNameOf(q)) })
     \/ /\ validDirectory
        /\ ~noMatches(matchesOf(q))
        /\ existsInRoot(dirs, dirNameOf(q)) \/ Granted(<<>>, dirNameOf(q))
        /\ matches' = matchesOf(q)
        /\ destDir' = dirNameOf(q)
        /\ dirs' = IF existsInRoot(dirs, dirNameOf(q)) THEN dirs
                   ELSE dirs \cup { dirNameOf(q) }
        /\ pc' = "explicit"
        /\ UNCHANGED << hist, denied >>

nameDestExists_never(dir, fname) == FALSE

\* if (fs::exists(dest)), in both branches of cleanFilesByName
nameDestExists(dir, fname) == fileAt(dirs, dir, fname)

\* The body of both loops that move (explicit: matches, auto-detect: found).
MoveOrSkip(src) ==
  /\ UNCHANGED dirs
  /\ \/ /\ nameDestExists(destDir, src.name)
        /\ SkipFile(src, "conflict", destDir)
        /\ UNCHANGED denied
     \/ /\ ~nameDestExists(destDir, src.name)
        /\ \/ ~renamePossible(dirs, src, destDir) /\ UNCHANGED denied
           \/ renamePossible(dirs, src, destDir) /\ Fault(src.name, destDir)
        /\ SkipFile(src, "renameFailed", destDir)
     \/ /\ ~nameDestExists(destDir, src.name)
        /\ renamePossible(dirs, src, destDir)
        /\ Granted(src.name, destDir)
        /\ MoveFile(src, destDir)

\* One pass of the loop over matches.
ExplicitMove(src) ==
  /\ pc = "explicit"
  /\ src \in matches
  /\ matches' = matches \ {src}
  /\ MoveOrSkip(src)
  /\ UNCHANGED << pc, name, destDir, start, hist, sessionVars, typeVars, autoVars >>

\* The report after branch 1.
ExplicitReport ==
  /\ pc = "explicit"
  /\ matches = {}
  /\ UNCHANGED << files, dirs, name, matches, destDir, moved, skipped, skippedFiles, log,
                  start, denied, typeVars, autoVars >>
  /\ Return("explicit", log)

(***************************************************************************)
(* cleanFilesByName: auto-detect                                           *)
(***************************************************************************)
\* tokenCount[token]++
Inc(tc, token) ==
  IF token \in DOMAIN tc THEN [tc EXCEPT ![token] = @ + 1] ELSE (token :> 1) @@ tc

\* token.size() >= 4 && ignoreSet.find(token) == ignoreSet.end()
Countable(token) == Len(token) >= MinTokenLength /\ token \notin ignoreSet

\* The loop over the characters of the lowercased stem: the token being built
\* and the counts, after the characters of rest.
RECURSIVE SplitCount(_, _, _)
SplitCount(rest, token, tc) ==
  IF rest = <<>> THEN [token |-> token, tc |-> tc]
  ELSE IF isalnum(Head(rest)) THEN SplitCount(Tail(rest), Append(token, Head(rest)), tc)
  ELSE IF Countable(token) THEN SplitCount(Tail(rest), <<>>, Inc(tc, token))
  ELSE SplitCount(Tail(rest), token, tc)

\* What one directory entry adds to tokenCount: the sub-tokens, the final
\* token, and the whole stem.
CountFile(tc, fname) ==
  LET lower == toLower(stem(fname))
      split == SplitCount(lower, <<>>, tc)
      final == IF Countable(split.token) THEN Inc(split.tc, split.token) ELSE split.tc
  IN  IF Countable(lower) THEN Inc(final, lower) ELSE final

\* The counts tc with the increments d added.
Added(tc, d) ==
  [ t \in DOMAIN tc \cup DOMAIN d |->
      (IF t \in DOMAIN tc THEN tc[t] ELSE 0) + (IF t \in DOMAIN d THEN d[t] ELSE 0) ]

\* tokenCount after the loop over the directory: every entry adds its
\* increments to the one map (the order of the entries does not change the
\* counts).
RECURSIVE CountAll(_, _)
CountAll(S, tc) ==
  IF S = {} THEN tc
  ELSE LET f == CHOOSE f \in S : TRUE
       IN  CountAll(S \ {f}, Added(tc, CountFile(<<>>, f.name)))

\* The tokens collected into common.
CommonTokens(tc) == { t \in DOMAIN tc : tc[t] >= MinGroupSize }

\* common after std::sort by count, descending, for the tokens C: std::sort
\* leaves the order of equal counts unspecified, so any token of the highest
\* count may come first.
RECURSIVE Sorted(_, _)
Sorted(C, tc) ==
  IF C = {} THEN { <<>> }
  ELSE UNION { { << <<t, tc[t]>> >> \o r : r \in Sorted(C \ {t}, tc) } :
               t \in { u \in C : \A v \in C : tc[v] <= tc[u] } }

Rankings(tc) == Sorted(CommonTokens(tc), tc)

limit_all == Len(common)

\* limit = min(10, common.size())
limit == IF Len(common) < TopTokens THEN Len(common) ELSE TopTokens

\* Branch 2 up to the loop over the ranked tokens: count, collect, sort.
AutoDetect ==
  /\ Begin("auto")
  /\ name' = <<>>
  /\ UNCHANGED << files, dirs, denied, typeVars, matches, destDir, found >>
  /\ IF ~validDirectory
     THEN /\ pc' = "terminated"
          /\ UNCHANGED << tokenCount, common, idx, hist >>
     ELSE /\ tokenCount' = CountAll(RegularFiles, <<>>)
          /\ common' \in Rankings(tokenCount')
          /\ IF common' = <<>>
             THEN /\ idx' = 0
                  /\ Return("auto", {})
             ELSE /\ idx' = 1
                  /\ pc' = "auto"
                  /\ UNCHANGED hist

\* The re-scan for a token.
foundFor(token) ==
  { f \in RegularFiles : Contains(toLower(f.name), token) /\ token \notin ignoreSet }

tooFew_one(n) == n < 1

\* if (found.size() < 2) continue;
tooFew(n) == n < MinGroupSize

\* The head of the loop over the ranked tokens: re-scan, group size, folder.
AutoToken ==
  /\ pc = "auto"
  /\ idx <= limit
  /\ UNCHANGED << files, moved, skipped, skippedFiles, start, hist, sessionVars, typeVars,
                  name, matches, tokenCount, common >>
  /\ LET token == common[idx][1]
     IN  \/ /\ tooFew(Cardinality(foundFor(token)))
            /\ idx' = idx + 1
            /\ UNCHANGED << dirs, pc, destDir, found, log, denied >>
         \/ /\ ~tooFew(Cardinality(foundFor(token)))
            /\ ~existsInRoot(dirs, token)
            /\ Fault(<<>>, token)
            /\ idx' = idx + 1
            /\ log' = log \cup { Event("mkdirFailed", <<>>, token) }
            /\ UNCHANGED << dirs, pc, destDir, found >>
         \/ /\ ~tooFew(Cardinality(foundFor(token)))
            /\ existsInRoot(dirs, token) \/ Granted(<<>>, token)
            /\ found' = foundFor(token)
            /\ destDir' = token
            /\ dirs' = IF existsInRoot(dirs, token) THEN dirs ELSE dirs \cup {token}
            /\ pc' = "autoMove"
            /\ UNCHANGED << idx, log, denied >>

\* One pass of the loop over found.
AutoMove(src) ==
  /\ pc = "autoMove"
  /\ src \in found
  /\ found' = found \ {src}
  /\ MoveOrSkip(src)
  /\ UNCHANGED << pc, destDir, start, hist, sessionVars, typeVars, name, matches, tokenCount,
                  common, idx >>

\* The loop over found is over: the next ranked token.
AutoNextToken ==
  /\ pc = "autoMove"
  /\ found = {}
  /\ pc' = "auto"
  /\ idx' = idx + 1
  /\ UNCHANGED << files, dirs, destDir, found, moved, skipped, skippedFiles, log, start,
                  hist, denied, sessionVars, typeVars, name, matches, tokenCount, common >>

\* The report after branch 2.
AutoReport ==
  /\ pc = "auto"
  /\ idx > limit
  /\ UNCHANGED << files, dirs, moved, skipped, skippedFiles, log, start, denied, typeVars,
                  name, matches, destDir, tokenCount, common, idx, found >>
  /\ Return("auto", log)

(***************************************************************************)
(* Specifications                                                          *)
(***************************************************************************)
Next ==
  \/ cleanFilesByType
  \/ \E src \in pending : TypeFile(src)
  \/ TypeReport
  \/ \E q \in Queries : ExplicitSelect(q)
  \/ \E src \in matches : ExplicitMove(src)
  \/ ExplicitReport
  \/ AutoDetect
  \/ AutoToken
  \/ \E src \in found : AutoMove(src)
  \/ AutoNextToken
  \/ AutoReport

Spec == Init /\ [][Next]_vars

\* organizeByType alone, run up to MaxRuns times in succession.
NextType ==
  \/ cleanFilesByType
  \/ \E src \in pending : TypeFile(src)
  \/ TypeReport

SpecTwice == InitSeq /\ [][NextType]_vars


\* Up to MaxRuns operations of any kind, one after the other.
SpecSeq == InitSeq /\ [][Next]_vars

(***************************************************************************)
(* getDirectoryPath                                                        *)
(***************************************************************************)
MaxLines == 3     \* lines standard input holds when getDirectoryPath is called

\* What a line of standard input may be: a bare Enter, or a path.
Lines == {"", "dir", "file", "missing", "overlong"}

\* fs::current_path()
current_path == "cwd"

\* operation() has read the option and calls getDirectoryPath; the first line
\* of stdin is what follows the option on its line.
InitDir ==
  /\ pc = "getDirectory"
  /\ stdin \in UNION { [1..n -> Lines] : n \in 0..MaxLines }
  /\ inputPath = ""
  /\ directoryPath = ""
  /\ files = {} /\ dirs = {}
  /\ pending = {} /\ name = <<>> /\ matches = {} /\ destDir = <<>>
  /\ tokenCount = <<>> /\ common = <<>> /\ idx = 0 /\ found = {}
  /\ moved = 0 /\ skipped = 0 /\ skippedFiles = <<>>
  /\ log = {}
  /\ start = [files |-> files, dirs |-> dirs]
  /\ hist = <<>>
  /\ denied = {}
  /\ budget = 0

\* std::cin.ignore(max, '\n'): the rest of the current line is dropped.
ignored(in) == IF in = <<>> THEN <<>> ELSE Tail(in)

\* std::getline(std::cin, inputPath): the next line; at the end of input the
\* string is left as it is.
getline(in, str) == IF in = <<>> THEN str ELSE Head(in)

\* One pass of the do-while loop: read a line, validate, return or prompt again.
getDirectoryPath ==
  /\ pc = "getDirectory"
  /\ LET line == getline(ignored(stdin), inputPath)
         targetDir == IF line = "" THEN current_path ELSE line
     IN  /\ stdin' = ignored(ignored(stdin))
         /\ IF statusFails(targetDir)
            THEN /\ pc' = "terminated"
                 /\ inputPath' = line
                 /\ UNCHANGED directoryPath
            ELSE IF ~exists(targetDir) \/ ~is_directory(targetDir)
            THEN /\ pc' = "getDirectory"
                 /\ inputPath' = ""
                 /\ UNCHANGED directoryPath
            ELSE /\ pc' = "idle"
                 /\ inputPath' = targetDir
                 /\ directoryPath' = targetDir
  /\ UNCHANGED << files, dirs, pending, name, matches, destDir, tokenCount, common, idx,
                  found, moved, skipped, skippedFiles, log, start, hist, denied, budget >>

NextDir == getDirectoryPath

SpecDir == InitDir /\ [][NextDir]_vars

(***************************************************************************)
(* Auto-detect on a directory with more than ten common tokens             *)
(***************************************************************************)
Letters == <<"j", "i", "h", "g", "f", "e", "d", "c", "b", "a">>

\* The k-th word: one letter, MinTokenLength times.
Word(k) == [ i \in 1..MinTokenLength |-> Letters[k] ]

\* w and a '_', n times.
RECURSIVE Repeated(_, _)
Repeated(w, n) == IF n = 0 THEN <<>> ELSE w \o <<"_">> \o Repeated(w, n - 1)

\* A stem that holds the k-th word times[k] times, for k from the k given.
RECURSIVE StemOf(_, _)
StemOf(times, k) ==
  IF k > Len(times) THEN <<>> ELSE Repeated(Word(k), times[k]) \o StemOf(times, k + 1)

\* Four filenames (49 to 59 characters) whose stems repeat the ten words:
\* together they give the words jjjj, iiii, ..., aaaa the counts 2, 3, 3, 4, 4, 4,
\* 5, 5, 5, 6; each stem meets the words in that order.
words_1_txt == StemOf(<<1, 1, 1, 1, 1, 1, 1, 1, 1, 1>>, 1) \o <<".", "t", "x", "t">>
words_2_txt == StemOf(<<1, 1, 1, 1, 1, 1, 1, 1, 1, 2>>, 1) \o <<".", "t", "x", "t">>
words_3_txt == StemOf(<<0, 1, 1, 1, 1, 1, 1, 1, 1, 1>>, 1) \o <<".", "t", "x", "t">>
words_4_txt == StemOf(<<0, 0, 0, 1, 1, 1, 2, 2, 2, 2>>, 1) \o <<".", "t", "x", "t">>

WordFiles == { words_1_txt, words_2_txt, words_3_txt, words_4_txt }

\* One operation on a directory that holds the four files of words or none of
\* them, next to up to two files with trip in their names.
InitTop ==
  /\ \E W \in { {}, WordFiles }, S \in SUBSET { trip_a_jpg, trip_b_JPG },
        E \in SUBSET DirUniverse :
       /\ files = { File(Root, n, Root) : n \in W \cup S }
       /\ dirs = E
  /\ directoryPath = "dir"
  /\ Idle
  /\ budget = 1

\* organizeByName with a bare Enter at the prompt.
NextTop ==
  \/ AutoDetect
  \/ AutoToken
  \/ \E src \in found : AutoMove(src)
  \/ AutoNextToken
  \/ AutoReport

SpecTop == InitTop /\ [][NextTop]_vars

(***************************************************************************)
(* listFilesInDirectory                                                    *)
(***************************************************************************)
font_ttf == <<"f","o","n","t",".","t","t","f">>
tool_deb == <<"t","o","o","l",".","d","e","b">>
disk_ISO == <<"d","i","s","k",".","I","S","O">>
clip_ts == <<"c","l","i","p",".","t","s">>

\* Filenames a directory to list is drawn from.
ListUniverse == { trip_a_jpg, trip_txt, run_bat, Images, font_ttf, tool_deb, disk_ISO, clip_ts }

\* The orders in which fs::directory_iterator may yield the entries S.
ScanOrders(S) ==
  { o \in [1..Cardinality(S) -> S] : \A i, j \in DOMAIN o : i # j => o[i] # o[j] }

\* The order in which the type headers are displayed.
typeOrder ==
  << <<"I","m","a","g","e","s">>, <<"V","i","d","e","o","s">>, <<"A","u","d","i","o">>,
     <<"D","o","c","u","m","e","n","t","s">>, <<"A","r","c","h","i","v","e","s">>,
     <<"C","o","d","e">>, <<"O","t","h","e","r">> >>

\* groupedFiles[type] after the loop over the entries o: the filenames
\* classified as type, in the order met.
groupedFiles(o, type) ==
  LET names == [ i \in DOMAIN o |-> o[i].name ]
      ofType(n) == typeOf(extension(n)) = type
  IN  SelectSeq(names, ofType)

\* What the loop over typeOrder prints: for every type of typeOrder with
\* files, its header and its filenames.
printedGroups(o, order) ==
  LET shown(type) == groupedFiles(o, type) # <<>>
  IN  [ i \in DOMAIN SelectSeq(order, shown) |->
          [ header |-> SelectSeq(order, shown)[i],
            names |-> groupedFiles(o, SelectSeq(order, shown)[i]) ] ]

\* The whole function: validate, group, print, wait for Enter (the rest of
\* the line, then one more character; standard input is at its end here).
listFilesInDirectory ==
  /\ pc = "idle"
  /\ Len(hist) < budget
  /\ IF ~exists(directoryPath) \/ ~is_directory(directoryPath)
     THEN /\ hist' = Append(hist, [op |-> "list", valid |-> FALSE, fileCount |-> 0,
                                   printed |-> <<>>])
          /\ UNCHANGED stdin
     ELSE /\ \E o \in ScanOrders(RegularFiles) :
               hist' = Append(hist, [op |-> "list", valid |-> TRUE, fileCount |-> Len(o),
                                     printed |-> IF Len(o) = 0 THEN <<>>
                                                 ELSE printedGroups(o, typeOrder)])
          /\ stdin' = ignored(stdin)
  /\ UNCHANGED << files, dirs, pc, pending, name, matches, destDir, tokenCount, common, idx,
                  found, moved, skipped, skippedFiles, log, start, denied, budget,
                  directoryPath, inputPath >>

\* One listing of a directory of at most MaxFiles files, or of a path that
\* names nothing.
InitList ==
  /\ \/ \E S \in SUBSET ListUniverse :
          /\ Cardinality(S) <= MaxFiles
          /\ files = { File(Root, n, Root) : n \in S }
          /\ dirs = {}
          /\ directoryPath = "dir"
     \/ Missing
  /\ Idle
  /\ budget = 1

NextList == listFilesInDirectory

SpecList == InitList /\ [][NextList]_vars

(***************************************************************************)
(* Explicit name: the names "." and ".."                                   *)
(***************************************************************************)
a_dotdot_b_txt == <<"a",".",".","b",".","t","x","t">>

\* Filenames of the directory, and what may be typed at the prompt.
DotUniverse == { a_dotdot_b_txt, trip_txt, Images, a_b_md }
DotQueries == { dot, dotdot, a_b }

\* One operation on a directory drawn from DotUniverse; the parent directory
\* may hold a file a..b.txt of its own; or on a path that names nothing.
InitDots ==
  /\ \/ \E S \in SUBSET DotUniverse, P \in SUBSET { a_dotdot_b_txt }, E \in SUBSET DirUniverse :
          /\ files = { File(Root, n, Root) : n \in S } \cup { File(dotdot, n, dotdot) : n \in P }
          /\ dirs = E
          /\ directoryPath = "dir"
     \/ Missing
  /\ Idle
  /\ budget = 1

\* organizeByName with a name typed at the prompt.
NextDots ==
  \/ \E q \in DotQueries : ExplicitSelect(q)
  \/ \E src \in matches : ExplicitMove(src)
  \/ ExplicitReport

SpecDots == InitDots /\ [][NextDots]_vars

(***************************************************************************)
(* By type: extensions that several categories list                        *)
(***************************************************************************)
disk_iso == <<"d","i","s","k",".","i","s","o">>

\* Filenames of the directory: .ts is listed by Videos and Code, .iso by
\* Archives and DiskImages.
OverlapUniverse == { clip_ts, disk_ISO, disk_iso, trip_txt }

\* One operation on a directory drawn from OverlapUniverse.
InitOverlap ==
  /\ \/ \E S \in SUBSET OverlapUniverse :
          /\ files = { File(Root, n, Root) : n \in S }
          /\ dirs = {}
          /\ directoryPath = "dir"
     \/ Missing
  /\ Idle
  /\ budget = 1

SpecOverlap == InitOverlap /\ [][NextType]_vars
(***************************************************************************)
(* Properties                                                              *)
(***************************************************************************)
\* The events the step adds to the log.
NewEvents == log' \ log

\* The regular files directly in the target directory when the run began.
StartFiles == { f \in start.files : f.dir = Root }

\* C1: in all three move paths, when the destination folder already holds a
\* file named like f at the moment f is handled, the step renames nothing: the
\* file at the destination and every other file are as before, f included.
C1_NoOverwrite ==
  [][ \A e \in NewEvents :
        (\E g \in files : g.dir = e.to /\ g.dir # Root /\ g.name = e.name)
          => /\ e.kind # "moved"
             /\ files' = files
             /\ \E f \in RegularFiles : f.name = e.name /\ f \in files' ]_vars

\* C1 witness: auto-detect has just skipped a file whose destination is taken
\* by a file that was in the folder before the run; both are where they were.
C1_Witness ==
  /\ pc = "autoMove"
  /\ \E e \in log :
       /\ e.kind = "conflict"
       /\ File(Root, e.name, Root) \in files
       /\ File(e.to, e.name, e.to) \in files

\* The events of this run that record a successful rename.
Moves == { e \in log : e.kind = "moved" }

\* C2: within one invocation every file is renamed at most once: no two
\* successful renames of this run concern the same file, and each renamed file
\* lies in the folder its one rename put it in.
C2_MovedAtMostOnce ==
  /\ \A e1, e2 \in Moves : e1.name = e2.name => e1.to = e2.to
  /\ \A e \in Moves : File(e.to, e.name, Root) \in files
  /\ moved = Cardinality(Moves)

\* C2 witness: an auto-detect run over two ranked tokens has returned after
\* moving files although a rename was refused.
C2_Witness ==
  /\ pc = "idle"
  /\ Len(hist) = 1 /\ hist[1].op = "auto"
  /\ Len(common) >= 2
  /\ Moves # {}
  /\ \E e \in log : e.kind = "renameFailed"

\* Positions i such that runs i and i + 1 are both organizeByType.
TypeTwice == { i \in 1..(Len(hist) - 1) : hist[i].op = "type" /\ hist[i + 1].op = "type" }

InAuto == pc \in {"auto", "autoMove"} \/ (pc = "idle" /\ hist # <<>> /\ hist[Len(hist)].op = "auto")

\* The words of a string: its maximal runs of letters and digits.
Words(s) ==
  { SubSeq(s, p[1], p[2]) :
      p \in { q \in (1..Len(s)) \X (1..Len(s)) :
                /\ q[1] <= q[2]
                /\ \A k \in q[1]..q[2] : isalnum(s[k])
                /\ q[1] = 1 \/ ~isalnum(s[q[1] - 1])
                /\ q[2] = Len(s) \/ ~isalnum(s[q[2] + 1]) } }

\* The files of the directory, as the run found it, with t among the words of
\* their lowercased filename.
FilesWithWord(t) == { f \in StartFiles : t \in Words(toLower(f.name)) }

\* C4: in auto-detect mode no folder is created for a token that occurs in
\* exactly one filename of the directory.
C4_SingleFileTokenNoFolder ==
  InAuto => \A t \in dirs \ start.dirs : Cardinality(FilesWithWord(t)) # 1

\* The regular files of the directory whose lowercased filename contains token.
Containing(token) == { f \in files : f.dir = Root /\ Contains(toLower(f.name), token) }

\* C5: a ranked token whose re-scan at its turn finds fewer than 2 regular
\* files containing it gets no folder, and no file is moved or counted as
\* skipped for it: the run goes on to the next token.
C5_TooFewNoFolder ==
  [][ (pc = "auto" /\ idx <= limit /\ Cardinality(Containing(common[idx][1])) < 2)
        => /\ dirs' = dirs /\ files' = files
           /\ moved' = moved /\ skipped' = skipped /\ skippedFiles' = skippedFiles
           /\ log' = log
           /\ pc' = "auto" /\ idx' = idx + 1 ]_vars

\* C5 witness: the second-ranked token was shared by two files when the run
\* began, the first-ranked token moved one of them, and the second got no
\* folder.
C5_Witness ==
  /\ pc = "auto" /\ idx = 3 /\ moved = 2 /\ log = Moves
  /\ Cardinality({ f \in StartFiles : Contains(toLower(f.name), common[2][1]) }) >= 2
  /\ Cardinality(Containing(common[2][1])) = 1
  /\ common[2][1] \notin dirs

\* The last operation was auto-detect and has returned.
AutoDone == pc = "idle" /\ hist # <<>> /\ hist[Len(hist)].op = "auto"

\* The words of a file's lowercased stem.
StemWords(f) == Words(toLower(stem(f.name)))

\* The files of the directory, as the run found it, with t among the words of
\* their stem.
Sharing(t) == { f \in StartFiles : t \in StemWords(f) }

\* A word long enough and not a stop word.
Eligible(t) == Len(t) >= MinTokenLength /\ t \notin ignoreSet

\* C6: when exactly k >= 2 files share a sub-token t (length >= 4, not a stop
\* word), no other filename contains t, no other token is shared by two files
\* and nothing named t exists, the run creates folder t with exactly those k
\* files, leaves every other file where it was, and reports moved = k and
\* skipped = 0. Stated for runs in which the platform refused nothing.
C6_GroupsSharedToken ==
  (AutoDone /\ denied = {}) =>
    \A t \in UNION { StemWords(f) : f \in StartFiles } :
      ( /\ Eligible(t)
        /\ Cardinality(Sharing(t)) >= 2
        /\ \A f \in StartFiles \ Sharing(t) : ~Contains(toLower(f.name), t)
        /\ \A u \in UNION { StemWords(f) : f \in StartFiles } \ {t} :
             Eligible(u) => Cardinality(Sharing(u)) < 2
        /\ t \notin start.dirs
        /\ \A f \in StartFiles : f.name # t )
      => /\ t \in dirs
         /\ { f \in files : f.dir = t } = { File(t, f.name, Root) : f \in Sharing(t) }
         /\ \A f \in start.files \ Sharing(t) : f \in files
         /\ moved = Cardinality(Sharing(t))
         /\ skipped = 0

\* The files of the directory from whose stem the code extracts token t.
ExtractedFrom(t) == { f \in StartFiles : t \in DOMAIN CountFile(<<>>, f.name) }

\* C7: in the ranked candidate list every token extracted from two or more
\* different files is ranked strictly before every token extracted from only
\* one file.
C7_SharedBeforeSingle ==
  pc \in {"auto", "autoMove"} =>
    \A i, j \in 1..Len(common) :
      ( /\ Cardinality(ExtractedFrom(common[i][1])) >= 2
        /\ Cardinality(ExtractedFrom(common[j][1])) = 1 )
      => i < j

(***************************************************************************)
(* By type: dangerous files and categories                                 *)
(***************************************************************************)
\* The step handles directory entry f of the by-type loop.
Handles(f) == pc = "type" /\ f \in pending /\ f \notin pending'

\* f's lowercased extension is in the dangerous set.
Dangerous(f) == toLower(extension(f.name)) \in Range(DEFAULT_DANGEROUS_EXTS)

\* The categories whose extension list holds f's lowercased extension.
Listing(f) ==
  { r.type : r \in { x \in Range(fallbackFileTypes) :
                       toLower(extension(f.name)) \in Range(x.exts) } }

\* C8: by type, a regular file whose lowercased extension is dangerous is
\* never moved, whatever its category: it stays at its path, skipped is
\* incremented once for it and its name is appended to the skip list.
C8_DangerousStays ==
  [][ pc = "type" =>
        \A f \in RegularFiles :
          Dangerous(f) =>
            /\ f \in files'
            /\ Handles(f) =>
                 /\ files' = files /\ dirs' = dirs
                 /\ moved' = moved
                 /\ skipped' = skipped + 1
                 /\ skippedFiles' = Append(skippedFiles, f.name) ]_vars

\* C8 witness: a by-type run has returned, it moved a file, and it left in
\* place a dangerous file whose extension the table lists under a category.
C8_Witness ==
  /\ pc = "idle" /\ hist # <<>> /\ hist[Len(hist)].op = "type"
  /\ moved > 0
  /\ \E f \in RegularFiles :
       /\ Dangerous(f) /\ Listing(f) # {}
       /\ f \in start.files
       /\ Event("dangerous", f.name, typeOf(extension(f.name))) \in log

\* C9: by type, a regular file with a non-dangerous extension, no same-named
\* file at its destination, and whose folder creation and rename succeed, ends
\* up in the folder of a category that lists its lowercased extension, or in
\* Other when none does; moved is incremented once for it.
C9_MovedToCategory ==
  [][ \A f \in RegularFiles :
        ( /\ Handles(f)
          /\ ~Dangerous(f)
          /\ ~Failed(NewEvents)
          /\ \A g \in files : g.name = f.name => g.dir \notin (Listing(f) \cup {Other}) )
        => /\ \E c \in (IF Listing(f) = {} THEN {Other} ELSE Listing(f)) :
                /\ files' = (files \ {f}) \cup { File(c, f.name, f.org) }
                /\ c \in dirs'
           /\ moved' = moved + 1
           /\ skipped' = skipped ]_vars

\* C9 witness: a by-type run has returned with an upper-case .JPG in Images
\* and a file without extension in Other.
C9_Witness ==
  /\ pc = "idle" /\ hist # <<>> /\ hist[Len(hist)].op = "type"
  /\ File(Images, trip_b_JPG, Root) \in files
  /\ File(Other, Images, Root) \in files
  /\ moved = 2

(***************************************************************************)
(* By name: explicit query                                                 *)
(***************************************************************************)
\* The last operation was an explicit-name run and has returned.
ExplicitDone == pc = "idle" /\ hist # <<>> /\ hist[Len(hist)].op = "explicit"

\* The files of the directory, as the run found it, whose lowercased filename
\* contains the lowercased query.
Selected == { f \in StartFiles : Contains(toLower(f.name), toLower(name)) }

\* The query with '/' and '\' replaced by '_'.
Folder == [ i \in 1..Len(name) |-> IF name[i] \in {"/", "\\"} THEN "_" ELSE name[i] ]

\* Selected files with no same-named file in the folder when the run began.
Movable == { f \in Selected : ~\E g \in start.files : g.dir = Folder /\ g.name = f.name }

\* C10 as stated: for a query with at least one match, the folder named after
\* the sanitized query exists, every selected file without a same-named file
\* in it has been moved there, and every other file is where it was.
C10_Explicit_AsStated ==
  (ExplicitDone /\ Selected # {}) =>
    /\ dirs = start.dirs \cup {Folder}
    /\ files = (start.files \ Movable) \cup { File(Folder, f.name, Root) : f \in Movable }

\* The selected files whose rename failed.
RenameFailed == { f \in Selected : \E e \in log : e.kind = "renameFailed" /\ e.name = f.name }

\* C10 amended: the same, when nothing named like the folder stands in the
\* way; a failed folder creation ends the run with nothing changed, and a
\* file whose rename fails stays where it was.
C10_Explicit ==
  (ExplicitDone /\ Selected # {} /\ ~\E f \in StartFiles : f.name = Folder) =>
    IF [name |-> <<>>, to |-> Folder] \in denied
    THEN dirs = start.dirs /\ files = start.files /\ moved = 0
    ELSE /\ dirs = start.dirs \cup {Folder}
         /\ files = (start.files \ (Movable \ RenameFailed))
                      \cup { File(Folder, f.name, Root) : f \in Movable \ RenameFailed }
         /\ moved = Cardinality(Movable \ RenameFailed)

\* C10 witness: the query a\b selected one file, the folder a_b was created
\* for it and the file moved there, next to a file that did not match.
C10_Witness ==
  /\ ExplicitDone /\ name = a_b
  /\ Folder \notin start.dirs /\ Folder \in dirs
  /\ Selected = { File(Root, a_b_md, Root) }
  /\ File(Folder, a_b_md, Root) \in files
  /\ moved = 1
  /\ RegularFiles # {}

\* C11: explicit-name mode with zero matches ends with the filesystem as it
\* was: no folder is created and no file is moved.
C11_NoMatchNoChange ==
  (ExplicitDone /\ Selected = {}) =>
    /\ files = start.files
    /\ dirs = start.dirs
    /\ moved = 0 /\ skipped = 0

\* C11 witness: a run has returned whose query matched none of the files of
\* the directory, and no folder of that name is there.
C11_Witness ==
  /\ ExplicitDone /\ Selected = {}
  /\ StartFiles # {}
  /\ Folder \notin dirs
  /\ files = start.files

\* An operation has returned.
Returned == pc = "idle" /\ hist # <<>>

\* C12: in every mode, a file skipped because its destination folder already
\* holds a same-named file is counted in skipped, is in the skip list, and is
\* still at its original path when the operation returns.
C12_ConflictStays ==
  Returned =>
    \A e \in log :
      e.kind = "conflict" =>
        /\ skipped >= 1
        /\ e.name \in Range(skippedFiles)
        /\ File(Root, e.name, Root) \in files

\* The events the step adds for a folder creation or a rename that failed.
NewFailures == { e \in NewEvents : e.kind \in {"mkdirFailed", "renameFailed"} }

\* C13: by type and in auto-detect, a folder creation or rename that fails
\* ends nothing: no file leaves its place in that step, and the loop goes on
\* with the next file (by type), the next ranked token (auto-detect, folder)
\* or the next file of the group (auto-detect, rename).
C13_FailureNonFatal ==
  [][ \A e \in NewFailures :
        /\ pc = "type" =>
             /\ files' = files /\ moved' = moved
             /\ pc' = "type"
             /\ pending' = { f \in pending : f.name # e.name }
        /\ pc = "auto" =>
             /\ files' = files /\ dirs' = dirs /\ moved' = moved
             /\ pc' = "auto" /\ common' = common /\ idx' = idx + 1
        /\ pc = "autoMove" =>
             /\ files' = files /\ dirs' = dirs /\ moved' = moved
             /\ pc' = "autoMove" /\ idx' = idx
             /\ found' = { f \in found : f.name # e.name } ]_vars

\* C13 witness: a by-type run has returned after a folder creation failed for
\* one file and another file was moved.
C13_Witness ==
  /\ Returned /\ hist[Len(hist)].op = "type"
  /\ \E e \in log : e.kind = "mkdirFailed" /\ File(Root, e.name, Root) \in files
  /\ moved >= 1
  /\ skipped + moved = Cardinality(StartFiles)

\* C14: when the directory passed to organizeByType or organizeByName is no
\* directory, the operation reports it and ends: nothing is scanned, nothing
\* changes, and no error escapes the operation.
C14_InvalidDirectoryEnds ==
  ~validDirectory =>
    /\ pc # "terminated"
    /\ pc \in {"getDirectory", "idle"}
    /\ files = start.files /\ dirs = start.dirs
    /\ moved = 0 /\ skipped = 0
    /\ tokenCount = <<>> /\ matches = {}

\* The files of the directory the returned operation selected for a move: by
\* type, every regular file; by explicit name, the matches; in auto-detect,
\* the files handled for a token and those containing a token whose folder
\* could not be created.
SelectedForMove ==
  LET op == hist[Len(hist)].op
  IN  IF op = "type" THEN StartFiles
      ELSE IF op = "explicit" THEN Selected
      ELSE { f \in StartFiles :
               \E e \in log : \/ e.name = f.name
                              \/ /\ e.kind = "mkdirFailed"
                                 /\ Contains(toLower(f.name), e.to) }

\* C15: in every mode, each file selected for a move and not moved, because
\* of a folder-creation failure, a name conflict or a rename failure, is
\* counted in skipped and named in the skip list of the report.
C15_ErrorsReported ==
  Returned =>
    /\ \A f \in SelectedForMove : f \in files => f.name \in Range(skippedFiles)
    /\ skipped = Len(skippedFiles)

\* The paths that name an existing directory.
Directories == {"dir", "cwd"}

\* The line the next pass of getDirectoryPath reads, "" at the end of input.
NextLine == IF Len(stdin) >= 2 THEN stdin[2] ELSE ""

\* C16: getDirectoryPath returns only a non-empty path that names an existing
\* directory; a line that names none makes it prompt again, and an empty line
\* selects the current working directory.
C16_ReturnsValidDirectory ==
  /\ [](pc = "idle" => directoryPath # "" /\ directoryPath \in Directories)
  /\ [][ pc = "getDirectory" =>
           /\ (NextLine # "" /\ NextLine \notin Directories) =>
                pc' = "getDirectory" /\ directoryPath' = directoryPath
           /\ NextLine = "" => pc' = "idle" /\ directoryPath' = "cwd"
           /\ NextLine \in Directories => pc' = "idle" /\ directoryPath' = NextLine ]_vars

\* The sub-tokens the code counts for one file, each with the number of times
\* it is counted: the tokens taken at the boundaries and the final token.
SubTokensCounted(fname) ==
  LET split == SplitCount(toLower(stem(fname)), <<>>, <<>>)
  IN  IF Countable(split.token) THEN Inc(split.tc, split.token) ELSE split.tc

\* The maximal runs of letters and digits of s, as <<first, last>> positions.
Runs(s) ==
  { q \in (1..Len(s)) \X (1..Len(s)) :
      /\ q[1] <= q[2]
      /\ \A k \in q[1]..q[2] : isalnum(s[k])
      /\ q[1] = 1 \/ ~isalnum(s[q[1] - 1])
      /\ q[2] = Len(s) \/ ~isalnum(s[q[2] + 1]) }

\* The reference tokenizer: the maximal runs of the lowercased stem that are
\* long enough and not stop words, each with the number of its occurrences.
ReferenceSubTokens(fname) ==
  LET s == toLower(stem(fname))
      R == { q \in Runs(s) : Eligible(SubSeq(s, q[1], q[2])) }
  IN  [ w \in { SubSeq(s, q[1], q[2]) : q \in R } |->
          Cardinality({ q \in R : SubSeq(s, q[1], q[2]) = w }) ]

\* C17: for every stem, the sub-tokens counted are exactly those of the
\* reference tokenizer, with the same multiplicities.
C17_ReferenceTokenizer ==
  InAuto =>
    \A f \in StartFiles :
      /\ DOMAIN SubTokensCounted(f.name) = DOMAIN ReferenceSubTokens(f.name)
      /\ \A w \in DOMAIN ReferenceSubTokens(f.name) :
           SubTokensCounted(f.name)[w] = ReferenceSubTokens(f.name)[w]

\* C18: every key of the token-count map is lowercase and made of ASCII
\* letters and digits only.
C18_KeysAlphanumeric ==
  InAuto =>
    \A t \in DOMAIN tokenCount :
      \A i \in 1..Len(t) : isalnum(t[i]) /\ tolower(t[i]) = t[i]

\* C19: a token's count equals the number of files it was extracted from.
C19_OneIncrementPerFile ==
  InAuto =>
    \A t \in DOMAIN tokenCount : tokenCount[t] = Cardinality(ExtractedFrom(t))

\* The tokens at the first TopTokens places of the candidate list.
FirstTen == { common[i][1] : i \in { j \in 1..Len(common) : j <= TopTokens } }

\* The root files whose lowercased filename contains t.
RootFilesWith(t) == { f \in RegularFiles : Contains(toLower(f.name), t) }

\* C20: the candidate list of auto-detect holds exactly the tokens whose count
\* is 2 or more, each once, in non-increasing order of count; only its first
\* 10 entries are processed, so every folder made and every file moved by the
\* run belongs to one of them; when no token reaches count 2 the run returns
\* with the filesystem as it found it.
C20_TopTenCandidates ==
  InAuto =>
    /\ { common[i][1] : i \in 1..Len(common) }
         = { t \in DOMAIN tokenCount : tokenCount[t] >= 2 }
    /\ \A i, j \in 1..Len(common) : i # j => common[i][1] # common[j][1]
    /\ \A i \in 1..Len(common) : common[i][2] = tokenCount[common[i][1]]
    /\ \A i, j \in 1..Len(common) : i < j => common[i][2] >= common[j][2]
    /\ idx <= TopTokens + 1
    /\ (dirs \ start.dirs) \subseteq FirstTen
    /\ \A f \in files \ start.files : f.dir \in FirstTen
    /\ \A e \in log : e.kind = "moved" => e.to \in FirstTen
    /\ (AutoDone /\ \A t \in DOMAIN tokenCount : tokenCount[t] < 2)
         => files = start.files /\ dirs = start.dirs

\* An auto-detect run has returned, the list has more than ten entries, and a
\* token past the tenth is in the names of two files still in the directory
\* and has no folder.
C20_Witness ==
  /\ AutoDone
  /\ \E i \in 1..Len(common) :
       /\ i > TopTokens
       /\ Cardinality(RootFilesWith(common[i][1])) >= 2
       /\ common[i][1] \notin dirs
       /\ C20_TopTenCandidates

\* The tokens one directory entry increments, in the order the loop over its
\* stem meets them: the sub-tokens, the final token, the whole stem.
RECURSIVE MetIn(_, _)
MetIn(rest, token) ==
  IF rest = <<>> THEN (IF Countable(token) THEN <<token>> ELSE <<>>)
  ELSE IF isalnum(Head(rest)) THEN MetIn(Tail(rest), Append(token, Head(rest)))
  ELSE IF Countable(token) THEN <<token>> \o MetIn(Tail(rest), <<>>)
  ELSE MetIn(Tail(rest), token)

Met(fname) ==
  LET lower == toLower(stem(fname))
  IN  MetIn(lower, <<>>) \o (IF Countable(lower) THEN <<lower>> ELSE <<>>)

\* Token t is met before token u by the scan o: the first entry that holds
\* either holds t, and holds it first unless it does not hold u.
MetBefore(o, t, u) ==
  \E i \in DOMAIN o :
    LET m == Met(o[i].name)
    IN  /\ \A j \in 1..(i - 1) : t \notin Range(Met(o[j].name)) /\ u \notin Range(Met(o[j].name))
        /\ \E p \in DOMAIN m :
             m[p] = t /\ \A q \in 1..p : m[q] # u

\* C21: the candidate tokens of equal count are ranked in the order in which
\* some scan of the directory first met them.
C21_TiesInScanOrder ==
  (pc = "auto" /\ idx = 1) =>
    \E o \in ScanOrders({ f \in start.files : f.dir = Root }) :
      \A i, j \in 1..Len(common) :
        (i < j /\ common[i][2] = common[j][2]) => MetBefore(o, common[i][1], common[j][1])

\* The working set: the entries of the directory as the run found it, less
\* those the run has moved.
WorkingSet ==
  { f \in start.files : f.dir = Root /\ ~\E e \in log : e.kind = "moved" /\ e.name = f.name }

\* The entries of the working set whose lowercased filename contains t.
WorkingSetWith(t) == { f \in WorkingSet : Contains(toLower(f.name), t) }

\* C22: at every ranked token, the re-scan of the directory yields what the
\* working set yields: the same group when the group is materialized, fewer
\* than 2 entries in both when the token is passed over, 2 or more in both
\* when the folder creation fails; so the folders, placements, counters and
\* skip list are those of the working-set model.
C22_WorkingSetEquivalent ==
  [][ pc = "auto" =>
        /\ pc' = "autoMove" => found' = WorkingSetWith(destDir')
        /\ (pc' = "auto" /\ idx' = idx + 1 /\ log' = log)
             => Cardinality(WorkingSetWith(common[idx][1])) < 2
        /\ (pc' = "auto" /\ idx' = idx + 1 /\ log' # log)
             => Cardinality(WorkingSetWith(common[idx][1])) >= 2 ]_vars

\* An auto-detect run has returned after moving files, and a token that 2 or
\* more entries held at the start was passed over because the entries left
\* were fewer: it has no folder.
C22_Witness ==
  /\ AutoDone
  /\ moved > 0
  /\ ~Failed(log)
  /\ \E i \in 1..Len(common) :
       /\ i <= TopTokens
       /\ Cardinality({ f \in start.files : f.dir = Root /\ Contains(toLower(f.name), common[i][1]) }) >= 2
       /\ Cardinality(WorkingSetWith(common[i][1])) < 2
       /\ ~existsInRoot(dirs, common[i][1])

\* The place of token t in the ranked list, 0 when it is not in it.
RankOf(t) ==
  IF \E i \in 1..Len(common) : common[i][1] = t
  THEN CHOOSE i \in 1..Len(common) : common[i][1] = t
  ELSE 0

\* The folder the run moved the entry named n into, <<>> when it did not.
MovedTo(n) ==
  IF \E e \in log : e.kind = "moved" /\ e.name = n
  THEN (CHOOSE e \in log : e.kind = "moved" /\ e.name = n).to
  ELSE <<>>

\* The entries that were in the directory, with the i-th token in their
\* lowercased filename, when the turn of the i-th token came: those not moved
\* at an earlier turn.
AtTurn(i) ==
  { f \in start.files :
      /\ f.dir = Root
      /\ Contains(toLower(f.name), common[i][1])
      /\ MovedTo(f.name) = <<>> \/ RankOf(MovedTo(f.name)) >= i }

\* Nothing failed and nothing was skipped for a conflict.
Undisturbed == \A e \in log : e.kind = "moved"

\* C23: in a run of auto-detect without failure or conflict, every file moved
\* lies in the folder of the first token, in rank order, that its lowercased
\* filename contains and that had 2 or more matching entries at its turn.
C23_FirstEligibleWins ==
  (AutoDone /\ Undisturbed) =>
    \A e \in log :
      LET i == RankOf(e.to)
      IN  /\ i >= 1 /\ i <= TopTokens
          /\ File(e.to, e.name, Root) \in files
          /\ Contains(toLower(e.name), e.to)
          /\ Cardinality(AtTurn(i)) >= 2
          /\ \A j \in 1..(i - 1) :
               Contains(toLower(e.name), common[j][1]) => Cardinality(AtTurn(j)) < 2

\* Such a run has moved a file whose name also holds a token ranked after the
\* one of its folder, a token that 2 or more entries held at the start.
C23_Witness ==
  /\ AutoDone /\ Undisturbed
  /\ \E e \in log : \E j \in 1..Len(common) :
       /\ j > RankOf(e.to) /\ j <= TopTokens
       /\ Contains(toLower(e.name), common[j][1])
       /\ Cardinality({ f \in start.files : f.dir = Root /\ Contains(toLower(f.name), common[j][1]) }) >= 2
       /\ File(e.to, e.name, Root) \in files

\* A listing has been printed.
ListDone == pc = "idle" /\ hist # <<>> /\ hist[Len(hist)].op = "list" /\ hist[Len(hist)].valid

\* The positions <<group, line>> at which the listing shows the filename n.
ShownAt(n) ==
  LET out == hist[Len(hist)].printed
  IN  { p \in UNION { { <<g, k>> : k \in DOMAIN out[g].names } : g \in DOMAIN out } :
          out[p[1]].names[p[2]] = n }

\* C24: the total printed is the number of regular files of the directory,
\* and each of them is printed once, under the header of its category.
C24_ListShowsEveryFile ==
  ListDone =>
    /\ hist[Len(hist)].fileCount = Cardinality(RegularFiles)
    /\ \A f \in RegularFiles :
         /\ Cardinality(ShownAt(f.name)) = 1
         /\ \A p \in ShownAt(f.name) :
              hist[Len(hist)].printed[p[1]].header = typeOf(extension(f.name))

\* A file, whatever its place: its filename and the folder it was in at first.
Identity(f) == << f.name, f.org >>

\* C25: in every state, every file is at its original place or, having been
\* in the target directory, in one folder under its own filename, and no two
\* files share a path; no step deletes, creates or renames a file, takes a
\* file out of the folder it was moved into, or removes a folder.
C25_FilesConserved ==
  /\ [](/\ \A f \in files : f.dir = f.org \/ (f.org = Root /\ isFolder(dirs, f.dir))
        /\ \A f, g \in files : (f.dir = g.dir /\ f.name = g.name) => f = g)
  /\ [][ /\ Cardinality(files') = Cardinality(files)
         /\ { Identity(f) : f \in files' } = { Identity(f) : f \in files }
         /\ \A f \in files : f.dir # f.org => f \in files'
         /\ dirs \subseteq dirs' ]_vars

\* Two operations of different kinds have returned, both have moved files,
\* and two files of the same filename lie in different folders.
C25_Witness ==
  /\ pc = "idle" /\ Len(hist) = 2
  /\ hist[1].moved > 0 /\ hist[2].moved > 0
  /\ hist[1].op # hist[2].op
  /\ \E f \in files : f.dir # f.org
  /\ \E f, g \in files : f.name = g.name /\ f.dir # g.dir

\* organizeByType has returned.
TypeDone == pc = "idle" /\ hist # <<>> /\ hist[Len(hist)].op = "type"

\* The files the run found directly in the directory and that are no longer
\* there.
Relocated == { f \in start.files : f.dir = Root /\ f \notin files }

\* C26: when organizeByType returns, moved + skipped is the number of regular
\* files the directory held at the start, skipped is the length of the skip
\* list, the skip list names no file twice, and moved is the number of files
\* relocated.
C26_TypeAccountsForAll ==
  TypeDone =>
    /\ moved + skipped = Cardinality({ f \in start.files : f.dir = Root })
    /\ skipped = Len(skippedFiles)
    /\ \A i, j \in 1..Len(skippedFiles) : i # j => skippedFiles[i] # skippedFiles[j]
    /\ moved = Cardinality(Relocated)
    /\ \A f \in Relocated : \E g \in files : g.name = f.name /\ g.org = Root /\ g.dir # Root

\* organizeByType has returned after moving some files and skipping others.
C26_Witness == TypeDone /\ moved > 0 /\ skipped > 0 /\ Len(skippedFiles) > 1

\* organizeByName has returned, in either mode.
NameDone == ExplicitDone \/ AutoDone

\* C27: when organizeByName returns, moved + skipped does not exceed the
\* number of regular files the directory held at the start, the skip list
\* names no file twice, and no file of the skip list has been moved.
C27_NameAccountsAtMostOnce ==
  NameDone =>
    /\ moved + skipped <= Cardinality(StartFiles)
    /\ \A i, j \in 1..Len(skippedFiles) : i # j => skippedFiles[i] # skippedFiles[j]
    /\ \A i \in 1..Len(skippedFiles) :
         ~\E e \in log : e.kind = "moved" /\ e.name = skippedFiles[i]

\* The folders the run has created.
NewFolders == dirs \ start.dirs

\* C28: when auto-detect returns and no rename has failed, every folder the
\* run created holds 2 or more files, each with the folder's name in its
\* lowercased filename.
C28_NoSmallGroupFolder ==
  (AutoDone /\ ~\E e \in log : e.kind = "renameFailed") =>
    \A d \in NewFolders :
      /\ Cardinality({ f \in files : f.dir = d }) >= 2
      /\ \A f \in files : f.dir = d => Contains(toLower(f.name), d)

\* Such a run has created a folder and passed over another candidate token,
\* held by one file that is still in the directory.
C28_Witness ==
  /\ AutoDone /\ ~\E e \in log : e.kind = "renameFailed"
  /\ NewFolders # {}
  /\ \E i \in 1..Len(common) :
       /\ i <= TopTokens
       /\ ~existsInRoot(dirs, common[i][1])
       /\ Cardinality({ f \in RegularFiles : Contains(toLower(f.name), common[i][1]) }) = 1

\* C29: in explicit-name mode the destination folder is a sub-folder of the
\* target directory, not the directory itself nor its parent, and every file
\* that was in the target directory is still there or in a sub-folder.
C29_ExplicitStaysInside ==
  (pc = "explicit" \/ (ExplicitDone /\ log # {})) =>
    /\ destDir \in dirs
    /\ \A f \in files : f.org = Root => f.dir = Root \/ f.dir \in dirs

\* The categories whose extension list holds, in some case, the lowercased
\* extension e.
CategoriesOf(e) ==
  { r.type : r \in { x \in Range(fallbackFileTypes) :
                       \E k \in DOMAIN x.exts : toLower(x.exts[k]) = e } }

\* The category of CategoriesOf(e) whose name is the greatest.
GreatestCategory(e) ==
  CHOOSE c \in CategoriesOf(e) : \A d \in CategoriesOf(e) : d = c \/ StrLess(d, c)

\* C30: the lookup gives every lowercased extension that some category lists
\* the category of the greatest name among those that list it (Videos for
\* .ts, DiskImages for .iso), and nothing else; every file organizeByType
\* moves goes to the folder of that category, whatever else the directory
\* holds and whatever the order of the entries.
C30_GreatestCategoryWins ==
  /\ DOMAIN extToType = UNION { { toLower(x.exts[k]) : k \in DOMAIN x.exts } :
                                  x \in Range(fallbackFileTypes) }
  /\ \A e \in DOMAIN extToType : extToType[e] = GreatestCategory(e)
  /\ extToType[<<".","t","s">>] = <<"V","i","d","e","o","s">>
  /\ extToType[<<".","i","s","o">>] = <<"D","i","s","k","I","m","a","g","e","s">>
  /\ (pc = "type" \/ TypeDone) =>
       \A e \in log :
         (e.kind = "moved" /\ toLower(extension(e.name)) \in DOMAIN extToType)
           => e.to = GreatestCategory(toLower(extension(e.name)))

\* organizeByType has returned with clip.ts in Videos and disk.ISO in
\* DiskImages.
C30_Witness ==
  /\ TypeDone
  /\ File(<<"V","i","d","e","o","s">>, clip_ts, Root) \in files
  /\ File(<<"D","i","s","k","I","m","a","g","e","s">>, disk_ISO, Root) \in files
=============================================================================
